---- MODULE Spec2Model ----
(***************************************************************************)
(* versionfs: a FUSE filesystem exposing one target file (inode 2) under a *)
(* virtual root (inode 1).  Every write-intent open of the target creates  *)
(* a new snapshot file "<version>.<target>" in the snapshot directory.     *)
(* The model is the VersionFS struct, the snapshot directory, the          *)
(* process's descriptor table and the last request with its reply.         *)
(***************************************************************************)
EXTENDS Integers, Sequences, FiniteSets, TLC

\* ---------------------------------------------------------------- bounds
MaxVersion == 3      \* highest version number explored
MaxFd == 2           \* descriptors the sessions may hold at once
MaxLen == 2          \* longest snapshot explored, in bytes

\* ------------------------------------------------------ program constants
O_RDONLY == 0
O_WRONLY == 1
O_RDWR == 2
O_ACCMODE == 3
O_CREAT == 64
O_EXCL == 128
O_TRUNC == 512
O_APPEND == 1024
SEEK_SET == 0
SEEK_CUR == 1
SEEK_END == 2
ROOT_INO == 1
TARGET_INO == 2

\* The target's display name (self.target) and another name a client may use.
Target == "t"
Names == {Target, "x"}
\* an inode number the filesystem never hands out
OTHER_INO == TARGET_INO + 1
Inodes == {ROOT_INO, TARGET_INO, OTHER_INO}
Versions == 1..MaxVersion
Fds == 1..MaxFd
\* What a client writes: the byte 1.  0 is the byte a write past the end
\* fills the gap with, 2 the byte of the files a previous run left behind.
Payloads == {<<1>>}

\* flags & bit != 0, for a one-bit mask.
HasFlag(flags, bit) == (flags \div bit) % 2 = 1

\* The open flags a client may send: each access mode, O_CREAT alone, and
\* O_TRUNC, O_CREAT|O_EXCL and O_APPEND added to an access mode.
OpenFlags ==
    { O_RDONLY, O_WRONLY, O_RDWR, O_CREAT,
      O_RDONLY + O_TRUNC, O_WRONLY + O_TRUNC,
      O_WRONLY + O_CREAT + O_EXCL, O_WRONLY + O_APPEND }

\* ------------------------------------------------------------------ state
VARIABLES
    proc,      \* "mounting" (before init), "serving", "aborted" (a panic)
    version,   \* VersionFS.version
    store,     \* the snapshot directory: path -> [exists, bytes]
    fds,       \* the descriptor table: fd -> [path, writable, append, pos, creator]
    hist,      \* history, per version: how its snapshot was created ("init",
               \* "copy", "trunc"), the session that created it ("none",
               \* "open", "ended"), whether a write has reached it, and
               \* how many steps have created it
    last       \* the last request handled and its reply

vars == <<proc, version, store, fds, hist, last>>

\* ------------------------------------------------------- pure helpers
Min(a, b) == IF a < b THEN a ELSE b
Max(a, b) == IF a > b THEN a ELSE b

\* format!("{}.{}", version, target) joined to target_dir
path_for_version(v) == <<v, Target>>

\* The snapshot directory's file names; "0.<target>" is a name like the
\* others, which no handler ever creates.
Paths == { path_for_version(v) : v \in 0..MaxVersion }

NoFile == [exists |-> FALSE, bytes |-> <<>>]
File(b) == [exists |-> TRUE, bytes |-> b]

\* fs::write(path, &[]): create or truncate, then write the bytes
fs_write(st, p, b) == [st EXCEPT ![p] = File(b)]

\* fs::copy(from, to): `to` is created or truncated and receives from's bytes
fs_copy(st, from, to) == [st EXCEPT ![to] = File(st[from].bytes)]

\* target_attr: Some(size) as <<size>>, None as <<>>
target_attr(st, v) ==
    IF v > 0 /\ v \in Versions /\ st[path_for_version(v)].exists
    THEN <<Len(st[path_for_version(v)].bytes)>>
    ELSE <<>>

previous_target_attr(st, v) == target_attr(st, v - 1)

current_target_attr(st, v) == target_attr(st, v)

\* const PARENT_ATTR: the fields the replies carry
PARENT_ATTR == [ino |-> ROOT_INO, size |-> 0]

WriteIntentOrTrunc(flags) ==
    HasFlag(flags, O_WRONLY) \/ HasFlag(flags, O_RDWR) \/ HasFlag(flags, O_CREAT)
        \/ HasFlag(flags, O_TRUNC)

\* the write-intent test of open
WriteIntent(flags) ==
    HasFlag(flags, O_WRONLY) \/ HasFlag(flags, O_RDWR) \/ HasFlag(flags, O_CREAT)

NextVersionSkips(v) == v + 2

\* self.version += 1
NextVersion(v) == v + 1

CopySourceFirst(v) == 1

\* The version whose snapshot a write-intent open copies
CopySource(v) == v - 1

\* open's choice between fs::copy and fs::write(newpath, &[])
CarriesOver(v, flags) == v > 1 /\ ~HasFlag(flags, O_TRUNC)

\* read: end = data.len().min(start + size)
ReadEnd(data, start, size) == Min(Len(data), start + size)

\* &data[start..end], which panics when start > end
SlicePanics(start, end) == start > end
Slice(data, start, end) == [i \in 1..(end - start) |-> data[start + i]]

\* pwrite(2) on a regular file: bytes land at `at`, a gap is zero-filled
PWrite(old, at, buf) ==
    [i \in 1..Max(Len(old), at + Len(buf)) |->
        IF i > at /\ i <= at + Len(buf) THEN buf[i - at]
        ELSE IF i <= Len(old) THEN old[i]
        ELSE 0]

\* pwrite(2) on Linux: a descriptor opened with O_APPEND appends, whatever
\* the offset
WriteAt(fd, old, offset) == IF fd.append THEN Len(old) ELSE offset

\* open(2): the failure code, "" when the open succeeds
OpenErrno(st, p, flags) ==
    IF st[p].exists
    THEN IF HasFlag(flags, O_CREAT) /\ HasFlag(flags, O_EXCL) THEN "EEXIST" ELSE ""
    ELSE IF HasFlag(flags, O_CREAT) THEN "" ELSE "ENOENT"

\* open(2): whether the access mode lets the descriptor write
Writable(flags) == flags % (O_ACCMODE + 1) # O_RDONLY

\* open(2) with O_TRUNC: truncates when the access mode allows writing;
\* with O_RDONLY the effect is unspecified (Linux truncates)
TruncOutcomes(flags) ==
    IF ~HasFlag(flags, O_TRUNC) THEN {FALSE}
    ELSE IF ~Writable(flags) THEN {TRUE, FALSE}
    ELSE {TRUE}

Closed == [path |-> <<0, Target>>, writable |-> FALSE, append |-> FALSE,
           pos |-> 0, creator |-> FALSE]
IsOpen(fd) == fd \in Fds /\ fds[fd].path[1] # 0
FreeFds == { fd \in Fds : ~IsOpen(fd) }
\* open(2) returns the lowest-numbered descriptor not in use
LowestFree == CHOOSE fd \in FreeFds : \A g \in FreeFds : fd <= g

\* ------------------------------------------- the request and its reply
\* `op` names the handler, the next fields are its arguments (those it does
\* not take are left at their default), status is "ok", "error" or "panic",
\* and errno, num, bytes, names are what the reply carries; attr is the ino
\* field of a replied attribute record (PARENT_ATTR's 1, the target's 2),
\* whose size is num.
NoReq == [op |-> "none", ino |-> 0, fh |-> 0, flags |-> 0, offset |-> 0,
          size |-> 0, name |-> "", data |-> <<>>,
          status |-> "none", errno |-> "", num |-> 0, bytes |-> <<>>,
          names |-> <<>>, attr |-> 0]

ReplyError(r, e) == [r EXCEPT !.status = "error", !.errno = e]
ReplyOk(r) == [r EXCEPT !.status = "ok"]
ReplyNum(r, n) == [r EXCEPT !.status = "ok", !.num = n]
\* reply.attr / reply.entry: the record's ino and size
ReplyAttr(r, ino, size) == [r EXCEPT !.status = "ok", !.attr = ino, !.num = size]
ReplyData(r, b) == [r EXCEPT !.status = "ok", !.bytes = b]
ReplyNames(r, e) == [r EXCEPT !.status = "ok", !.names = e]
Panicked(r) == [r EXCEPT !.status = "panic"]

NoHist == [how |-> "none", session |-> "none", written |-> FALSE, times |-> 0]

\* ------------------------------------------------------------------ Init
\* main: version 0, nothing open; the snapshot directory is empty or holds
\* the files a previous run left behind.
StaleBytes == <<2>>

Init ==
    /\ proc = "mounting"
    /\ version = 0
    /\ \E old \in {{}, Versions} :
          store = [p \in Paths |-> IF p[1] \in old THEN File(StaleBytes) ELSE NoFile]
    /\ fds = [fd \in Fds |-> Closed]
    /\ hist = [v \in Versions |-> NoHist]
    /\ last = NoReq

\* --------------------------------------------------------------- actions
InitKeepsBytes(old) == old

\* init: what fs::write(path, &[]) leaves in version 1's snapshot, whatever
\* the file held before
InitBytes(old) == <<>>

\* Filesystem::init
init ==
    /\ proc = "mounting"
    /\ version' = 1
    /\ store' = fs_write(store, path_for_version(1),
                         InitBytes(store[path_for_version(1)].bytes))
    /\ proc' = "serving"
    /\ hist' = [hist EXCEPT ![1] = [how |-> "init", session |-> "none", written |-> FALSE,
                                    times |-> hist[1].times + 1]]
    /\ last' = ReplyOk([NoReq EXCEPT !.op = "init"])
    /\ UNCHANGED fds

IsTargetOrRoot(ino) == ino \in {ROOT_INO, TARGET_INO}

\* open: `match ino { 2 => .., _ => reply.error(ENOSYS) }`
IsTarget(ino) == ino = TARGET_INO

FailedOpenRollsBack(before, bumped) == before

\* open: the counter a failed native open leaves behind, given the counter
\* before the request and after the bump: the -1 arm only replies errno
FailedOpenVersion(before, bumped) == bumped

\* Filesystem::open.  The version bump, the snapshot creation and the native
\* open are one handler.
open(ino, flags) ==
    /\ proc = "serving"
    /\ LET req == [NoReq EXCEPT !.op = "open", !.ino = ino, !.flags = flags]
           wi == WriteIntent(flags)
           v1 == IF wi THEN NextVersion(version) ELSE version
           carries == CarriesOver(v1, flags)
           oldpath == path_for_version(CopySource(v1))
           path == path_for_version(v1)
       IN  IF ~IsTarget(ino)
           THEN /\ last' = ReplyError(req, "ENOSYS")
                /\ UNCHANGED <<proc, version, store, fds, hist>>
           ELSE /\ v1 \in Versions
                /\ FreeFds # {}
                /\ IF wi /\ carries /\ ~store[oldpath].exists
                   THEN \* fs::copy(..).unwrap() panics
                        /\ proc' = "aborted"
                        /\ version' = v1
                        /\ last' = Panicked(req)
                        /\ UNCHANGED <<store, fds, hist>>
                   ELSE LET st1 == IF ~wi THEN store
                                   ELSE IF carries THEN fs_copy(store, oldpath, path)
                                   ELSE fs_write(store, path, <<>>)
                            err == OpenErrno(st1, path, flags)
                            fd == LowestFree
                            how == IF carries THEN "copy" ELSE "trunc"
                        IN  /\ proc' = proc
                            /\ IF err # ""
                               THEN /\ version' = FailedOpenVersion(version, v1)
                                    /\ store' = st1
                                    /\ fds' = fds
                                    /\ hist' = IF wi
                                               THEN [hist EXCEPT ![v1] =
                                                       [how |-> how, session |-> "none",
                                                        written |-> FALSE,
                                                        times |-> hist[v1].times + 1]]
                                               ELSE hist
                                    /\ last' = ReplyError(req, err)
                               ELSE /\ version' = v1
                                    /\ \E tr \in TruncOutcomes(flags) :
                                          store' = IF tr THEN fs_write(st1, path, <<>>)
                                                   ELSE st1
                                    /\ fds' = [fds EXCEPT ![fd] =
                                                 [path |-> path,
                                                  writable |-> Writable(flags),
                                                  append |-> HasFlag(flags, O_APPEND),
                                                  pos |-> 0,
                                                  creator |-> wi]]
                                    /\ hist' = IF wi
                                               THEN [hist EXCEPT ![v1] =
                                                       [how |-> how, session |-> "open",
                                                        written |-> FALSE,
                                                        times |-> hist[v1].times + 1]]
                                               ELSE hist
                                    /\ last' = ReplyNum(req, fd)

\* Filesystem::release: close(fh)
release(fh) ==
    /\ proc = "serving"
    /\ fds' = IF IsOpen(fh) THEN [fds EXCEPT ![fh] = Closed] ELSE fds
    /\ hist' = IF IsOpen(fh) /\ fds[fh].creator
               THEN [hist EXCEPT ![fds[fh].path[1]].session = "ended"]
               ELSE hist
    /\ last' = ReplyOk([NoReq EXCEPT !.op = "release", !.fh = fh])
    /\ UNCHANGED <<proc, version, store>>

WritePathCurrent(fh, v) == path_for_version(v)

\* write: the snapshot pwrite(fh, ..) writes to (the one the descriptor is
\* bound to, whatever the version counter says)
WritePath(fh, v) == fds[fh].path

\* Filesystem::write: pwrite(fh, data, offset); ino is not consulted
write(ino, fh, offset, data) ==
    /\ proc = "serving"
    /\ LET req == [NoReq EXCEPT !.op = "write", !.ino = ino, !.fh = fh,
                                !.offset = offset, !.data = data]
       IN  IF ~IsOpen(fh) \/ ~fds[fh].writable
           THEN /\ last' = ReplyError(req, "EBADF")
                /\ UNCHANGED <<store, hist>>
           ELSE LET p == WritePath(fh, version)
                    old == store[p].bytes
                    new == PWrite(old, WriteAt(fds[fh], old, offset), data)
                IN  /\ Len(new) <= MaxLen
                    /\ store' = [store EXCEPT ![p].bytes = new]
                    /\ hist' = [hist EXCEPT ![p[1]].written = TRUE]
                    /\ last' = ReplyNum(req, Len(data))
    /\ UNCHANGED <<proc, version, fds>>

\* Filesystem::lseek: lseek(fh, offset, whence)
lseek(ino, fh, offset, whence) ==
    /\ proc = "serving"
    /\ LET req == [NoReq EXCEPT !.op = "lseek", !.ino = ino, !.fh = fh,
                                !.offset = offset, !.flags = whence]
       IN  IF ~IsOpen(fh)
           THEN /\ last' = ReplyError(req, "EBADF")
                /\ fds' = fds
           ELSE LET base == IF whence = SEEK_SET THEN 0
                            ELSE IF whence = SEEK_CUR THEN fds[fh].pos
                            ELSE Len(store[fds[fh].path].bytes)
                    new == base + offset
                IN  IF new < 0
                    THEN /\ last' = ReplyError(req, "EINVAL")
                         /\ fds' = fds
                    ELSE /\ fds' = [fds EXCEPT ![fh].pos = new]
                         /\ last' = ReplyNum(req, new)
    /\ UNCHANGED <<proc, version, store, hist>>

ReadVersionOfHandle(v, fh) == IF IsOpen(fh) THEN fds[fh].path[1] ELSE v

\* read: the version whose snapshot is read (_fh is not consulted)
ReadVersion(v, fh) == v

\* Filesystem::read: the whole current snapshot is read by path and sliced
read(ino, fh, offset, size) ==
    /\ proc = "serving"
    /\ LET req == [NoReq EXCEPT !.op = "read", !.ino = ino, !.fh = fh,
                                !.offset = offset, !.size = size]
       IN  IF ino = TARGET_INO /\ version > 0
           THEN LET path == path_for_version(ReadVersion(version, fh))
                    data == store[path].bytes
                    start == offset
                    end == ReadEnd(data, start, size)
                IN  IF ~store[path].exists \/ SlicePanics(start, end)
                    THEN \* fs::read(..).unwrap() or the slice panics
                         /\ proc' = "aborted"
                         /\ last' = Panicked(req)
                    ELSE /\ proc' = proc
                         /\ last' = ReplyData(req, Slice(data, start, end))
           ELSE /\ proc' = proc
                /\ last' = ReplyError(req, "ENOENT")
    /\ UNCHANGED <<version, store, fds, hist>>

LookupAttrPrevious(st, v) == target_attr(st, v - 1)

\* lookup: self.target_attr(self.version).or(self.target_attr(self.version - 1))
LookupAttr(st, v) ==
    IF target_attr(st, v) # <<>> THEN target_attr(st, v) ELSE target_attr(st, v - 1)

\* Filesystem::lookup
lookup(parent, name) ==
    /\ proc = "serving"
    /\ LET req == [NoReq EXCEPT !.op = "lookup", !.ino = parent, !.name = name]
           attr == LookupAttr(store, version)
       IN  IF parent = ROOT_INO /\ name = Target
           THEN IF attr = <<>>
                THEN /\ proc' = "aborted"
                     /\ last' = Panicked(req)
                ELSE /\ proc' = proc
                     /\ last' = ReplyAttr(req, TARGET_INO, attr[1])
           ELSE /\ proc' = proc
                /\ last' = ReplyError(req, "ENOENT")
    /\ UNCHANGED <<version, store, fds, hist>>

\* Filesystem::getattr; the reply carries the attribute record's ino and size
getattr(ino) ==
    /\ proc = "serving"
    /\ LET req == [NoReq EXCEPT !.op = "getattr", !.ino = ino]
           attr == current_target_attr(store, version)
       IN  IF ino = ROOT_INO
           THEN /\ proc' = proc
                /\ last' = ReplyAttr(req, PARENT_ATTR.ino, PARENT_ATTR.size)
           ELSE IF ino = TARGET_INO /\ version > 0
           THEN IF attr = <<>>
                THEN /\ proc' = "aborted"
                     /\ last' = Panicked(req)
                ELSE /\ proc' = proc
                     /\ last' = ReplyAttr(req, TARGET_INO, attr[1])
           ELSE /\ proc' = proc
                /\ last' = ReplyError(req, "ENOENT")
    /\ UNCHANGED <<version, store, fds, hist>>

MknodExistsAnyParent(parent, name) == name = Target

\* mknod: the test that selects EEXIST
MknodExists(parent, name) == parent = ROOT_INO /\ name = Target

\* Filesystem::mknod
mknod(parent, name) ==
    /\ proc = "serving"
    /\ LET req == [NoReq EXCEPT !.op = "mknod", !.ino = parent, !.name = name]
       IN
       last' = IF MknodExists(parent, name)
               THEN ReplyError(req, "EEXIST")
               ELSE ReplyError(req, "ENOSYS")
    /\ UNCHANGED <<proc, version, store, fds, hist>>

DirEntriesNoParent(v) == IF v > 0 THEN <<".", Target>> ELSE <<".">>

\* readdir's entry list: ".", ".." and, once version > 0, the target
DirEntries(v) == IF v > 0 THEN <<".", "..", Target>> ELSE <<".", "..">>

\* Filesystem::readdir; `room` is how many entries the reply buffer takes
\* before reply.add reports it full.  Each entry is <<name, next offset>>.
readdir(ino, offset, room) ==
    /\ proc = "serving"
    /\ LET req == [NoReq EXCEPT !.op = "readdir", !.ino = ino, !.offset = offset,
                                !.size = room]
           entries == DirEntries(version)
           n == Min(room, Max(0, Len(entries) - offset))
       IN  last' = IF ino # ROOT_INO
                   THEN ReplyError(req, "ENOENT")
                   ELSE ReplyNames(req,
                            [i \in 1..n |-> <<entries[offset + i], offset + i>>])
    /\ UNCHANGED <<proc, version, store, fds, hist>>

SetattrTruncates(st, v, size) ==
    IF size >= 0 /\ v \in Versions /\ st[path_for_version(v)].exists
    THEN [st EXCEPT ![path_for_version(v)].bytes =
                [i \in 1..size |-> IF i <= Len(@) THEN @[i] ELSE 0]]
    ELSE st

\* setattr: the snapshot directory after the request (no argument is used)
SetattrStore(st, v, size) == st

\* Filesystem::setattr: every requested change is ignored; `size` is the
\* requested length, -1 when none is requested
setattr(ino, size) ==
    /\ proc = "serving"
    /\ LET req == [NoReq EXCEPT !.op = "setattr", !.ino = ino, !.size = size]
           attr == current_target_attr(store, version)
       IN  IF attr = <<>>
           THEN /\ proc' = "aborted"
                /\ last' = Panicked(req)
           ELSE /\ proc' = proc
                /\ last' = ReplyAttr(req, TARGET_INO, attr[1])
    /\ store' = SetattrStore(store, version, size)
    /\ UNCHANGED <<version, fds, hist>>

\* ------------------------------------------------------- request inputs
ReadOffsets == 0..MaxLen
ReadSizes == {1, MaxLen}
WriteOffsets == 0..(MaxLen - 1)
\* <<offset, whence>>
SeekRequests == {<<0, SEEK_SET>>, <<0, SEEK_CUR>>}
\* <<parent, name>>
NameRequests == {<<ROOT_INO, Target>>, <<ROOT_INO, "x">>, <<TARGET_INO, Target>>}
\* <<ino, offset, room>>
DirRequests == {<<ROOT_INO, 0, 3>>, <<ROOT_INO, 1, 1>>, <<ROOT_INO, 2, 3>>,
                <<ROOT_INO, 3, 3>>, <<TARGET_INO, 0, 3>>}
\* <<ino, size>>
AttrRequests == {<<TARGET_INO, -1>>, <<TARGET_INO, 0>>, <<ROOT_INO, 0>>,
                 <<OTHER_INO, 1>>}
\* <<ino, flags>>: opens of an inode other than the target
OtherOpens == {<<ROOT_INO, O_RDONLY>>, <<ROOT_INO, O_WRONLY>>,
               <<OTHER_INO, O_RDWR + O_TRUNC>>}

Next ==
    \/ init
    \/ \E flags \in OpenFlags : open(TARGET_INO, flags)
    \/ \E r \in OtherOpens : open(r[1], r[2])
    \/ \E fh \in Fds : release(fh)
    \/ \E fh \in Fds, off \in WriteOffsets, data \in Payloads :
          write(TARGET_INO, fh, off, data)
    \/ \E fh \in Fds, r \in SeekRequests : lseek(TARGET_INO, fh, r[1], r[2])
    \/ \E fh \in Fds, off \in ReadOffsets, size \in ReadSizes :
          read(TARGET_INO, fh, off, size)
    \/ read(ROOT_INO, 1, 0, 1)
    \/ \E r \in NameRequests : lookup(r[1], r[2])
    \/ \E ino \in Inodes : getattr(ino)
    \/ \E r \in NameRequests : mknod(r[1], r[2])
    \/ \E r \in DirRequests : readdir(r[1], r[2], r[3])
    \/ \E r \in AttrRequests : setattr(r[1], r[2])

Spec == Init /\ [][Next]_vars

\* ------------------------------------------------------------ the claims
\* Write intent as the interface states it: O_WRONLY, O_RDWR or O_CREAT set.
AsksToWrite(flags) ==
    HasFlag(flags, O_WRONLY) \/ HasFlag(flags, O_RDWR) \/ HasFlag(flags, O_CREAT)

\* The snapshot of version v, and of the current version.
Snapshot(v) == store[<<v, Target>>]
Current == Snapshot(version)
\* The snapshot of version v after the step.
SnapshotAfter(v) == store'[<<v, Target>>]

\* The byte range [offset, min(len, offset + size)) of a snapshot.
Range(bytes, offset, size) == SubSeq(bytes, offset + 1, Min(Len(bytes), offset + size))

\* C1: every write-intent open of the target raises the version counter by
\* exactly 1, to a number no earlier open was given; no step lowers it.
C1_VersionCounts ==
    [][ /\ version' >= version
        /\ (last'.op = "open" /\ last'.ino = TARGET_INO /\ AsksToWrite(last'.flags)) =>
              /\ version' = version + 1
              /\ hist[version'].how = "none" ]_vars

\* Two write-intent opens have run and were given versions 2 and 3.
C1_Witness ==
    /\ version = 3
    /\ last.op = "open"
    /\ AsksToWrite(last.flags)
    /\ hist[2].how \in {"copy", "trunc"}
    /\ hist[3].how \in {"copy", "trunc"}

\* C2: a write-intent open without O_TRUNC leaves the new version's snapshot
\* byte-identical to the previous version's snapshot as it was at the open.
C2_CopyOnOpen ==
    [][ (/\ last'.op = "open"
         /\ last'.ino = TARGET_INO
         /\ AsksToWrite(last'.flags)
         /\ ~HasFlag(last'.flags, O_TRUNC)
         /\ Current.exists) =>
              /\ SnapshotAfter(version + 1).exists
              /\ SnapshotAfter(version + 1).bytes = Current.bytes ]_vars

\* Version 3 was just opened without O_TRUNC while version 2 held bytes.
C2_Witness ==
    /\ last.op = "open"
    /\ AsksToWrite(last.flags)
    /\ ~HasFlag(last.flags, O_TRUNC)
    /\ version = 3
    /\ Snapshot(2).bytes # <<>>
    /\ Snapshot(3).bytes = Snapshot(2).bytes

\* C3: a write-intent open with O_TRUNC leaves the new version's snapshot
\* with length 0, and once that session is released without a write, a Read
\* of the target returns 0 bytes.
C3_TruncatingOpen ==
    /\ (/\ last.op = "open"
        /\ last.ino = TARGET_INO
        /\ AsksToWrite(last.flags)
        /\ HasFlag(last.flags, O_TRUNC)) =>
            (Current.exists /\ Len(Current.bytes) = 0)
    /\ (/\ last.op = "read"
        /\ last.ino = TARGET_INO
        /\ hist[version].how = "trunc"
        /\ hist[version].session = "ended"
        /\ ~hist[version].written) =>
            (last.status = "ok" /\ last.bytes = <<>>)

\* C4: once the session that created version v is released, no request
\* changes snapshot v.
C4_ReleasedSnapshotFrozen ==
    [][ \A v \in Versions :
          hist[v].session = "ended" => SnapshotAfter(v) = Snapshot(v) ]_vars

\* C5: after a successful Write through the session that created the
\* current version, a Read of the written range returns the written bytes
\* and GetAttributes reports the snapshot's length, which covers the range.
C5_ReadAfterWrite ==
    [][ (/\ last.op = "write"
         /\ last.status = "ok"
         /\ IsOpen(last.fh)
         /\ fds[last.fh].creator
         /\ fds[last.fh].path = <<version, Target>>) =>
            /\ (/\ last'.op = "read"
                /\ last'.ino = TARGET_INO
                /\ last'.offset = last.offset
                /\ last'.size = Len(last.data)) =>
                    (last'.status = "ok" /\ last'.bytes = last.data)
            /\ (last'.op = "getattr" /\ last'.ino = TARGET_INO) =>
                    /\ last'.status = "ok"
                    /\ last'.num = Len(Current.bytes)
                    /\ last'.num >= last.offset + Len(last.data) ]_vars

\* C6: a Read of the target returns exactly the range
\* [offset, min(len, offset + size)) of the current snapshot: at most size
\* bytes, and none when offset >= len.
C6_ReadRange ==
    (last.op = "read" /\ last.ino = TARGET_INO /\ version > 0) =>
        /\ last.status = "ok"
        /\ last.bytes = Range(Current.bytes, last.offset, last.size)
        /\ Len(last.bytes) <= last.size
        /\ (last.offset >= Len(Current.bytes) => last.bytes = <<>>)

\* C7: the bytes a Read of the target returns are those of the current
\* version's snapshot, whatever handle was passed.
C7_ReadsCurrent ==
    (last.op = "read" /\ last.status = "ok") =>
        last.bytes = Range(Current.bytes, last.offset, last.size)

\* A read through a handle bound to an older version, whose snapshot differs
\* from the current one, returned the current snapshot's bytes.
C7_Witness ==
    /\ last.op = "read"
    /\ last.status = "ok"
    /\ IsOpen(last.fh)
    /\ fds[last.fh].path[1] < version
    /\ last.bytes # <<>>
    /\ last.bytes # Range(store[fds[last.fh].path].bytes, last.offset, last.size)

\* C8: a Write changes at most the snapshot its handle's descriptor is bound
\* to, never the version counter, and replies with the number of bytes
\* written or with the failure code.
C8_WriteFrame ==
    [][ last'.op = "write" =>
          /\ version' = version
          /\ \A p \in Paths :
                (~IsOpen(last'.fh) \/ p # fds[last'.fh].path) => store'[p] = store[p]
          /\ \/ last'.status = "ok" /\ last'.num = Len(last'.data)
             \/ last'.status = "error" /\ last'.errno # "" ]_vars

\* A write went through a handle bound to a version older than the current
\* one, and the current snapshot does not show it.
C8_Witness ==
    /\ last.op = "write"
    /\ last.status = "ok"
    /\ fds[last.fh].path[1] < version
    /\ store[fds[last.fh].path].bytes # Current.bytes
    /\ ~hist[version].written

\* C9: an open of the target without write intent keeps the version counter,
\* creates no snapshot file and binds its descriptor to the current version's
\* snapshot.
C9_ReadOpenFrame ==
    [][ (last'.op = "open" /\ last'.ino = TARGET_INO /\ ~AsksToWrite(last'.flags)) =>
          /\ version' = version
          /\ \A p \in Paths : store'[p].exists = store[p].exists
          /\ last'.status = "ok" =>
                /\ ~IsOpen(last'.num)
                /\ fds'[last'.num].path = <<version, Target>> ]_vars

\* A read-only open at version 2 got a descriptor on version 2's snapshot.
C9_Witness ==
    /\ last.op = "open"
    /\ last.flags = O_RDONLY
    /\ last.status = "ok"
    /\ version = 2
    /\ ~Snapshot(3).exists
    /\ fds[last.num].path = <<2, Target>>

\* C10: initialization leaves version 1 with an empty snapshot, also over a
\* file of that name; no request is handled before it, and the counter is at
\* least 1 from then on.
C10_Initialized ==
    /\ last.op = "init" => (version = 1 /\ Snapshot(1) = File(<<>>))
    /\ proc = "mounting" => (version = 0 /\ last.op = "none")
    /\ proc # "mounting" => version >= 1

\* Initialization has just run in a directory a previous run left files in.
C10_Witness ==
    /\ last.op = "init"
    /\ Snapshot(2) = File(StaleBytes)

\* C11: GetAttributes on inode 2 (version > 0) reports the byte length of the
\* current version's snapshot, also while a session still writes to an older
\* one; on inode 1 it replies the fixed root record; any other inode, or
\* inode 2 at version 0, gets NotFound.
C11_GetAttributes ==
    last.op = "getattr" =>
        IF last.ino = ROOT_INO
        THEN last.status = "ok" /\ last.attr = ROOT_INO /\ last.num = 0
        ELSE IF last.ino = TARGET_INO /\ version > 0
        THEN /\ last.status = "ok"
             /\ last.attr = TARGET_INO
             /\ Current.exists
             /\ last.num = Len(Current.bytes)
        ELSE last.status = "error" /\ last.errno = "ENOENT"

\* GetAttributes answered with the current snapshot's length while an open
\* session is bound to an older snapshot of another length.
C11_Witness ==
    /\ last.op = "getattr"
    /\ last.ino = TARGET_INO
    /\ last.status = "ok"
    /\ \E fd \in Fds :
          /\ IsOpen(fd)
          /\ fds[fd].writable
          /\ fds[fd].path[1] < version
          /\ Len(store[fds[fd].path].bytes) # last.num

\* C12: SetAttributes, for any inode and any requested change (a size change
\* included), leaves the version counter and every snapshot unchanged and
\* replies the target's attributes computed from the current snapshot.
C12_SetAttributesFrame ==
    [][ last'.op = "setattr" =>
          /\ version' = version
          /\ store' = store
          /\ last'.status = "ok"
          /\ last'.attr = TARGET_INO
          /\ last'.num = Len(Current.bytes) ]_vars

\* A SetAttributes asking for length 0 was answered with the target's
\* attributes while the current snapshot kept its bytes.
C12_Witness ==
    /\ last.op = "setattr"
    /\ last.size = 0
    /\ last.status = "ok"
    /\ Len(Current.bytes) > 0
    /\ last.num = Len(Current.bytes)

\* C13: a CreateNode request naming the target fails with AlreadyExists
\* whatever the parent inode, every other CreateNode request fails with
\* NotSupported, and neither changes the version counter or a snapshot.
C13_CreateNode ==
    [][ last'.op = "mknod" =>
          /\ last'.status = "error"
          /\ last'.errno = IF last'.name = Target THEN "EEXIST" ELSE "ENOSYS"
          /\ version' = version
          /\ store' = store ]_vars

\* C13 as amended: AlreadyExists is the reply when the parent is the virtual
\* root and the name is the target's; every other CreateNode request (another
\* name, or another parent) gets NotSupported; nothing is changed.
C13_CreateNodeUnderRoot ==
    [][ last'.op = "mknod" =>
          /\ last'.status = "error"
          /\ last'.errno = IF last'.ino = ROOT_INO /\ last'.name = Target
                           THEN "EEXIST" ELSE "ENOSYS"
          /\ version' = version
          /\ store' = store ]_vars

\* A CreateNode naming the target under a parent other than the root was
\* answered NotSupported.
C13_Witness ==
    /\ last.op = "mknod"
    /\ last.name = Target
    /\ last.ino # ROOT_INO
    /\ last.errno = "ENOSYS"

\* The fixed listing of the virtual root at version v, and what is left of
\* it from position `offset` on.
Listing(v) == IF v > 0 THEN <<".", "..", Target>> ELSE <<".", "..">>
ListingFrom(v, offset) == SubSeq(Listing(v), offset + 1, Len(Listing(v)))

\* C14: ListEntries(offset) on the virtual root returns the listing from
\* position `offset` on (all of it when the reply has room, else as many
\* entries as it takes), each entry with next-offset = its position + 1, so
\* that a listing restarted at a returned offset continues with no duplicate
\* and no omission; listing another inode fails with NotFound.
C14_ListEntries ==
    [][ last'.op = "readdir" =>
          IF last'.ino # ROOT_INO
          THEN last'.status = "error" /\ last'.errno = "ENOENT"
          ELSE LET rest == ListingFrom(version, last'.offset)
                   got == last'.names
               IN  /\ last'.status = "ok"
                   /\ Len(got) = Min(last'.size, Len(rest))
                   /\ \A i \in 1..Len(got) : got[i] = <<rest[i], last'.offset + i>>
                   /\ (/\ last.op = "readdir"
                       /\ last.ino = ROOT_INO
                       /\ last.names # <<>>
                       /\ last'.offset = last.names[Len(last.names)][2]) =>
                           LET both == last.names \o got
                           IN  \A i \in 1..Len(both) :
                                  both[i][1] = ListingFrom(version, last.offset)[i] ]_vars

\* A listing restarted at offset 2 returned the target's entry alone.
C14_Witness ==
    /\ last.op = "readdir"
    /\ last.ino = ROOT_INO
    /\ last.offset = 2
    /\ last.names = << <<Target, 3>> >>

\* C15: an Open of any inode other than the target (the root included) is
\* answered with NotFound and changes neither the version counter nor any
\* snapshot.
C15_OpenOtherInode ==
    [][ (last'.op = "open" /\ last'.ino # TARGET_INO) =>
          /\ last'.status = "error"
          /\ last'.errno = "ENOENT"
          /\ version' = version
          /\ store' = store ]_vars

\* C15 as amended: such an Open is answered with NotSupported, whatever its
\* flags, and changes neither the version counter nor any snapshot.
C15_OpenOtherInodeNotSupported ==
    [][ (last'.op = "open" /\ last'.ino # TARGET_INO) =>
          /\ last'.status = "error"
          /\ last'.errno = "ENOSYS"
          /\ version' = version
          /\ store' = store
          /\ fds' = fds ]_vars

\* A write-intent Open of the root was refused with NotSupported.
C15_Witness ==
    /\ last.op = "open"
    /\ last.ino = ROOT_INO
    /\ AsksToWrite(last.flags)
    /\ last.status = "error"
    /\ last.errno = "ENOSYS"

\* C16: once initialization has run, a snapshot file exists for every version
\* number in 1..counter and for no version number above the counter or for
\* version 0, and each snapshot was created by exactly one step.
C16_OnePerVersion ==
    proc # "mounting" =>
        \A v \in 0..MaxVersion :
            /\ store[<<v, Target>>].exists <=> (1 <= v /\ v <= version)
            /\ (1 <= v /\ v <= version) => hist[v].times = 1

\* C16 as amended: a snapshot file exists for every version number in
\* 1..counter, each created by exactly one step of this run; none exists for
\* version 0; above the counter no step has created a file, and a file found
\* there is one a previous run left, untouched.
C16_OnePerVersionReached ==
    proc # "mounting" =>
        /\ ~store[<<0, Target>>].exists
        /\ \A v \in Versions :
              /\ v <= version => (Snapshot(v).exists /\ hist[v].times = 1)
              /\ v > version =>
                    /\ hist[v].times = 0
                    /\ Snapshot(v).exists => Snapshot(v) = File(StaleBytes)

\* After one write-intent open the counter is 2, snapshots 1 and 2 exist and
\* a file of an earlier run still lies above the counter.
C16_Witness ==
    /\ proc = "serving"
    /\ version = 2
    /\ last.op = "open"
    /\ Snapshot(1).exists
    /\ Snapshot(2).exists
    /\ hist[2].times = 1
    /\ Snapshot(3) = File(StaleBytes)

\* C17: Lookup(parent = 1, name = target) at version v >= 1 replies the
\* target's attributes with the length of snapshot v when that file exists
\* and of snapshot v - 1 otherwise; any other name or parent gets NotFound;
\* a lookup changes neither the version counter nor any snapshot.
C17_Lookup ==
    [][ last'.op = "lookup" =>
          /\ version' = version
          /\ store' = store
          /\ IF last'.ino = ROOT_INO /\ last'.name = Target
             THEN /\ last'.status = "ok"
                  /\ last'.attr = TARGET_INO
                  /\ IF Current.exists
                     THEN last'.num = Len(Current.bytes)
                     ELSE /\ Snapshot(version - 1).exists
                          /\ last'.num = Len(Snapshot(version - 1).bytes)
             ELSE last'.status = "error" /\ last'.errno = "ENOENT" ]_vars

\* A lookup of the target at version 2 replied the length of snapshot 2,
\* which differs from snapshot 1's.
C17_Witness ==
    /\ last.op = "lookup"
    /\ last.ino = ROOT_INO
    /\ last.name = Target
    /\ last.status = "ok"
    /\ version = 2
    /\ Len(Snapshot(2).bytes) # Len(Snapshot(1).bytes)
    /\ last.num = Len(Snapshot(2).bytes)

\* Every handler takes `&mut self`, so an open runs from its counter bump to
\* its reply as one step.  None of the states a torn open would leave is
\* reachable: every version in 1..counter has its snapshot, no two sessions
\* that created a version are bound to the same snapshot, and no lookup or
\* getattr finds the counter pointing at a missing snapshot.
OpensSerialized ==
    proc # "mounting" =>
        /\ \A v \in 1..version : Snapshot(v).exists
        /\ \A f, g \in Fds :
              (f # g /\ IsOpen(f) /\ IsOpen(g) /\ fds[f].creator /\ fds[g].creator) =>
                  fds[f].path # fds[g].path
        /\ last.op \in {"lookup", "getattr"} => last.status # "panic"

\* C19: a write-intent open whose native open fails replies the OS error
\* code and is not rolled back: the version counter has been raised by 1 and
\* the new version's snapshot exists, with no session bound to it.
C19_FailedOpenNotRolledBack ==
    [][ (/\ last'.op = "open"
         /\ last'.ino = TARGET_INO
         /\ AsksToWrite(last'.flags)
         /\ last'.status = "error") =>
            /\ last'.errno # ""
            /\ version' = version + 1
            /\ SnapshotAfter(version + 1).exists
            /\ \A fd \in Fds : fds'[fd].path # <<version + 1, Target>> ]_vars

\* An open with O_CREAT|O_EXCL failed with EEXIST on the snapshot it had just
\* created: the counter is 2, snapshot 2 exists and no descriptor is on it.
C19_Witness ==
    /\ last.op = "open"
    /\ HasFlag(last.flags, O_CREAT) /\ HasFlag(last.flags, O_EXCL)
    /\ last.status = "error"
    /\ last.errno = "EEXIST"
    /\ version = 2
    /\ Snapshot(2).exists
    /\ \A fd \in Fds : fds[fd].path # <<2, Target>>

\* C20: an open of the target without write intent leaves the bytes of every
\* snapshot unchanged, whatever its flags, O_TRUNC included.
C20_ReadOpenKeepsBytes ==
    [][ (last'.op = "open" /\ last'.ino = TARGET_INO /\ ~AsksToWrite(last'.flags)) =>
          \A p \in Paths : store'[p].bytes = store[p].bytes ]_vars
====
